---- MODULE Spec2Model ----
(***************************************************************************)
(* The protected call boundary of rosy (src/src/protected.rs): protected,  *)
(* protected_no_panic and protected_no_panic_size_opt around the VM's      *)
(* rb_protect, with the VM's pending-exception slot (rb_errinfo /          *)
(* rb_set_errinfo) and AnyException::_take_current.                        *)
(*                                                                         *)
(* One logical thread of execution: the native call stack is the sequence  *)
(* `stack`, one frame per boundary call in progress.  A callback is a      *)
(* nondeterministic program: it makes any number of nested boundary calls  *)
(* and then returns a value, raises a VM exception or panics.              *)
(*                                                                         *)
(* A panic that leaves a wrapper without catch_unwind unwinds through      *)
(* rb_protect's frame, and a read of a never-written output slot reads     *)
(* uninitialized memory: both are undefined behaviour.  The model marks    *)
(* the state `undefined` and defines no step after it: the build may       *)
(* abort, unwind further or do anything else, and nothing is asserted of   *)
(* what follows.                                                           *)
(***************************************************************************)
EXTENDS Integers, Sequences, FiniteSets, TLC

\* ------------------------------------------------------------------ bounds
MaxDepth == 2
MaxCalls == 3
MaxLen   == 3      \* longest Array
ValueBits == 6     \* width of VALUE (usize) and of c_long, scaled down
MaxWordSize == 4   \* bytes of the widest word type (u128 / i128), scaled down

\* ------------------------------------------------------- program constants
\* util::NIL_VALUE: the content of the pending-exception slot when empty.
NIL_VALUE == "nil"
\* The statuses rb_protect can store when the protected function was left by a
\* non-local jump: any nonzero tag.
NonzeroStatus == {1, 6}

Values     == {"a", "b"}      \* values of the callback's output type O
Exceptions == {"e1", "e2"}    \* VM exception objects
Payloads   == {"p1", "p2"}    \* panic payloads (Box<dyn Any + Send>)

NONE == "none"

\* The three bodies a boundary call can run.
PROTECTED == "protected"
NO_PANIC  == "protected_no_panic"
SIZE_OPT  == "protected_no_panic_size_opt"
\* The crate root's own protected (lib.rs): no catch_unwind in its wrapper.
LIB       == "lib_protected"

\* The functions of vm that run a script under one of the VM's protecting
\* primitives (rb_eval_string_protect, rb_eval_string_wrap, rb_load_protect).
EVAL           == "vm::eval"
EVAL_WRAPPED   == "vm::eval_wrapped"
EVAL_PROTECTED == "vm::eval_protected"
LOAD           == "vm::load"
VmApis == {EVAL, EVAL_WRAPPED, EVAL_PROTECTED, LOAD}
\* The value of `()`, which load returns in Ok.
UNIT == "()"

\* ------------------------------------------------------------------- state
VARIABLES
    stack,      \* frames of the boundary calls in progress, outermost first
    errinfo,    \* the VM's pending-exception slot
    last,       \* what the most recently finished boundary call did and returned
    ncalls,     \* boundary calls made so far
    undefined,  \* a panic unwound through rb_protect's frame: behaviour undefined
    iter,       \* an Array and an Iter over it (array.rs)
    gc,         \* the collector's switch and the gc::disabled calls in progress (gc.rs)
    ns,         \* the constants of the top-level namespace (mixin/class/mod.rs)
    ext,        \* the last use of AnyException::current / take_current by a caller
    num         \* the last operation on an Integer and its result (num/integer/mod.rs)

boundaryVars == <<stack, errinfo, last, ncalls, undefined>>
otherVars    == <<iter, gc, ns, ext, num>>
vars         == <<stack, errinfo, last, ncalls, undefined, iter, gc, ns, ext, num>>

\* The parts of the state a specification does not use stay as they start.
Unused == [unused |-> TRUE]

\* A cell of memory: uninitialized, or holding a tagged value.
Uninit       == [tag |-> "uninit", val |-> NONE]
Cell(t, v)   == [tag |-> t, val |-> v]

\* util::matches_ruby_size_align::<O>() decides which body protected_no_panic runs.
Dispatch(api, matches) ==
    IF api = NO_PANIC /\ matches THEN SIZE_OPT ELSE api

\* Mutant: every function starts with the status protected starts with.
InitErr_one(variant) == 1

\* `let mut err = ...` before the call of rb_protect.
InitErr(variant) == IF variant = PROTECTED THEN 1 ELSE 0

\* Mutant: no wrapper catches the unwind.
WrapperCatchesUnwind_none(variant) == FALSE

\* Only protected's wrapper runs the callback inside panic::catch_unwind.
WrapperCatchesUnwind(variant) == variant = PROTECTED

\* Mutant: every status up to 1 is taken for success.
IsSuccess_lax(err) == err <= 1

\* `match err { 0 => ..., _ => ... }`
IsSuccess(err) == err = 0

NoResult == [kind |-> NONE, val |-> NONE]

NoCall ==
    [variant |-> NONE, depth |-> 0, err |-> -1, invoked |-> 0, takes |-> 0,
     writes |-> 0, outRead |-> FALSE, outDropped |-> FALSE, crossed |-> FALSE,
     cb |-> NoResult, result |-> NoResult,
     innerErr |-> FALSE, prev |-> NoResult, entryErrinfo |-> NIL_VALUE,
     raisedWith |-> NONE, exitErrinfo |-> NIL_VALUE]

\* No boundary call was made yet; the pending-exception slot is empty.
BoundaryInit ==
    /\ stack = << >>
    /\ errinfo = NIL_VALUE
    /\ last = NoCall
    /\ ncalls = 0
    /\ undefined = FALSE

Init ==
    /\ BoundaryInit
    /\ iter = Unused
    /\ gc = Unused
    /\ ns = Unused
    /\ ext = Unused
    /\ num = Unused

Depth == Len(stack)
Top   == stack[Depth]
SetTop(fr) == [stack EXCEPT ![Depth] = fr]

\* Mutant: a call starts at any point of the enclosing call.
CanCall_anytime ==
    /\ ~undefined
    /\ ncalls < MaxCalls
    /\ Depth < MaxDepth

\* Native code that may start a boundary call: the top-level caller, or the
\* callback of the innermost call while no panic is unwinding through it.
CanCall ==
    /\ ~undefined
    /\ ncalls < MaxCalls
    /\ Depth < MaxDepth
    /\ (Depth > 0 => Top.pc = "callback" /\ Top.unw = NONE)

\* ----------------------------------------------------------------- actions

\* The head of protected / protected_no_panic / protected_no_panic_size_opt up to
\* the call of rb_protect: the context (Some(f), &mut out) and `err` are built.
NewFrame(variant) ==
    [variant |-> variant,
     pc      |-> "protect",
     f       |-> TRUE,                 \* ctx.0: Option<F> is Some(f)
     out     |-> Uninit,               \* mem::uninitialized() output slot
     val     |-> Uninit,               \* rb_protect's return value
     err     |-> InitErr(variant),
     unw     |-> NONE,                 \* payload of a panic unwinding in the callback
     \* what the call did so far (observation only)
     invoked |-> 0, takes |-> 0, crossed |-> FALSE, cb |-> NoResult,
     writes |-> 0,                     \* ptr::write calls on the output slot
     outRead |-> FALSE,
     innerErr |-> FALSE, raisedWith |-> NONE,
     \* the result of the call the same caller made just before this one
     prev |-> IF last.depth = Depth + 1 THEN last.result ELSE NoResult,
     entryErrinfo |-> errinfo]

\* Mutant: the context is built with an empty holder, (None, &mut out).
Call_empty_holder(api, matches) ==
    /\ CanCall
    /\ stack' = Append(stack, [NewFrame(Dispatch(api, matches)) EXCEPT !.f = FALSE])
    /\ ncalls' = ncalls + 1
    /\ UNCHANGED <<errinfo, last, undefined>>
    /\ UNCHANGED otherVars

Call(api, matches) ==
    /\ CanCall
    /\ stack' = Append(stack, NewFrame(Dispatch(api, matches)))
    /\ ncalls' = ncalls + 1
    /\ UNCHANGED <<errinfo, last, undefined>>
    /\ UNCHANGED otherVars

\* Mutant: the wrapper calls the callback through the holder without emptying it.
EnterWrapper_no_take(fr) ==
    [fr EXCEPT !.invoked = @ + 1, !.pc = "callback"]

\* rb_protect calls the wrapper: `f.take()` empties the holder and the callback
\* starts.  A holder already empty is unreachable_unchecked().
EnterWrapper(fr) ==
    IF fr.f
    THEN [fr EXCEPT !.f = FALSE, !.invoked = @ + 1, !.pc = "callback"]
    ELSE [fr EXCEPT !.pc = "undefined"]

ProtectEnter ==
    /\ ~undefined
    /\ Depth > 0
    /\ Top.pc = "protect"
    /\ stack' = SetTop(EnterWrapper(Top))
    /\ undefined' = (EnterWrapper(Top).pc = "undefined")
    /\ UNCHANGED <<errinfo, last, ncalls>>
    /\ UNCHANGED otherVars

\* The VM raises inside rb_protect before the wrapper is entered.
ProtectAbort(e) ==
    /\ ~undefined
    /\ Depth > 0
    /\ Top.pc = "protect"
    /\ errinfo' = e
    /\ stack' = SetTop([Top EXCEPT !.pc = "jump", !.raisedWith = e])
    /\ UNCHANGED <<last, ncalls, undefined>>
    /\ UNCHANGED otherVars

\* Mutant: every wrapper returns nil to rb_protect, the size-optimised one too.
WriteOutput_nil_return(fr, v) ==
    CASE fr.variant = PROTECTED ->
            [fr EXCEPT !.out = Cell("Ok", v), !.writes = @ + 1, !.val = Cell("VALUE", NIL_VALUE)]
      [] fr.variant \in {NO_PANIC, LIB} ->
            [fr EXCEPT !.out = Cell("O", v), !.writes = @ + 1, !.val = Cell("VALUE", NIL_VALUE)]
      [] fr.variant = SIZE_OPT ->
            [fr EXCEPT !.val = Cell("VALUE", NIL_VALUE)]

\* What the wrapper does with the value the callback returned.
WriteOutput(fr, v) ==
    CASE fr.variant = PROTECTED ->
            \* ptr::write(*out, catch_unwind(f)) with f returning
            [fr EXCEPT !.out = Cell("Ok", v), !.writes = @ + 1, !.val = Cell("VALUE", NIL_VALUE)]
      [] fr.variant \in {NO_PANIC, LIB} ->
            \* ptr::write(*out, f())
            [fr EXCEPT !.out = Cell("O", v), !.writes = @ + 1, !.val = Cell("VALUE", NIL_VALUE)]
      [] fr.variant = SIZE_OPT ->
            \* ptr::read(&f() as *const O as *const VALUE)
            [fr EXCEPT !.val = Cell("VALUE", v)]

\* The callback returns v; the wrapper stores it and returns to rb_protect.
CallbackReturn(v) ==
    /\ ~undefined
    /\ Depth > 0
    /\ Top.pc = "callback" /\ Top.unw = NONE
    /\ stack' = SetTop([WriteOutput(Top, v) EXCEPT
                          !.pc = "wrapper_done", !.cb = [kind |-> "return", val |-> v]])
    /\ UNCHANGED <<errinfo, last, ncalls, undefined>>
    /\ UNCHANGED otherVars

\* The callback raises e (Exception::raise -> rb_exc_raise): the VM stores e in
\* the pending-exception slot and jumps to the innermost rb_protect.
CallbackRaise(e) ==
    /\ ~undefined
    /\ Depth > 0
    /\ Top.pc = "callback" /\ Top.unw = NONE
    /\ errinfo' = e
    /\ stack' = SetTop([Top EXCEPT !.pc = "jump", !.raisedWith = e,
                                   !.cb = [kind |-> "raise", val |-> e]])
    /\ UNCHANGED <<last, ncalls, undefined>>
    /\ UNCHANGED otherVars

\* Mutant: the caught panic is turned into a jump out of the wrapper.
PanicInWrapper_as_raise(fr, p) ==
    [fr EXCEPT !.unw = NONE, !.pc = "jump"]

\* The callback panics with payload p.  protected's wrapper catches the unwind
\* and stores Err(p) in the output slot; the other wrappers do not, and the
\* unwind leaves the extern "C" wrapper into rb_protect's frame.
PanicInWrapper(fr, p) ==
    IF WrapperCatchesUnwind(fr.variant)
    THEN [fr EXCEPT !.out = Cell("Err", p), !.writes = @ + 1,
                    !.val = Cell("VALUE", NIL_VALUE),
                    !.unw = NONE, !.pc = "wrapper_done"]
    ELSE [fr EXCEPT !.unw = p, !.crossed = TRUE, !.pc = "undefined"]

CallbackPanic(p) ==
    /\ ~undefined
    /\ Depth > 0
    /\ Top.pc = "callback"
    /\ Top.unw \in {NONE, p}       \* a new panic, or one coming out of an inner call
    /\ LET fr == [Top EXCEPT !.cb = [kind |-> "panic", val |-> p]] IN
         /\ stack' = SetTop(PanicInWrapper(fr, p))
         /\ undefined' = (PanicInWrapper(fr, p).pc = "undefined")
    /\ UNCHANGED <<errinfo, last, ncalls>>
    /\ UNCHANGED otherVars

\* The callback wrapped its inner call in panic::catch_unwind and goes on.
CallbackCatchUnwind ==
    /\ ~undefined
    /\ Depth > 0
    /\ Top.pc = "callback" /\ Top.unw # NONE
    /\ stack' = SetTop([Top EXCEPT !.unw = NONE])
    /\ UNCHANGED <<errinfo, last, ncalls, undefined>>
    /\ UNCHANGED otherVars

\* Mutant: the status of a jump is stored even when the wrapper returned.
ProtectStatus_always_jump(fr, s) == s

\* rb_protect returns: it stores 0 in *pstate when the wrapper returned, a nonzero
\* tag when it was left by a jump, and then returns nil instead of the wrapper's
\* value.  rb_load_protect stores a status only when the load failed.
ProtectStatus(fr, s) ==
    IF fr.pc = "wrapper_done"
    THEN IF fr.variant = LOAD THEN fr.err ELSE 0
    ELSE s

\* Mutant: rb_protect returns without storing anything in *pstate.
ProtectReturn_unwritten(s) ==
    /\ ~undefined
    /\ Depth > 0
    /\ Top.pc \in {"wrapper_done", "jump"}
    /\ stack' = SetTop([Top EXCEPT
                          !.val = IF Top.pc = "jump" THEN Cell("VALUE", NIL_VALUE) ELSE @,
                          !.pc  = "returned"])
    /\ UNCHANGED <<errinfo, last, ncalls, undefined>>
    /\ UNCHANGED otherVars

ProtectReturn(s) ==
    /\ ~undefined
    /\ Depth > 0
    /\ Top.pc \in {"wrapper_done", "jump"}
    /\ stack' = SetTop([Top EXCEPT
                          !.err = ProtectStatus(Top, s),
                          !.val = IF Top.pc = "jump" THEN Cell("VALUE", NIL_VALUE) ELSE @,
                          !.pc  = "returned"])
    /\ UNCHANGED <<errinfo, last, ncalls, undefined>>
    /\ UNCHANGED otherVars

\* Mutant: the slot is cleared before it is read.
TakeCurrentValue_after_clear(slot) == NIL_VALUE

\* Mutant: the slot is read and not cleared.
TakeCurrentSlot_no_clear(slot) == slot

\* AnyException::_take_current: rb_errinfo() then rb_set_errinfo(NIL_VALUE).
TakeCurrentValue(slot) == slot
TakeCurrentSlot(slot)  == NIL_VALUE

\* Mutant: the slot is taken before the status is looked at.
TakesCurrent_always(err) == TRUE

\* Mutant: the failure arm builds its error without taking the slot.
TakesCurrent_never(err) == FALSE

\* `_ => Err(AnyException::_take_current())`: the arm that takes the slot.
TakesCurrent(err) == ~IsSuccess(err)

\* Mutant: the output slot is a plain local, dropped when the function ends.
OutIsManuallyDrop_none(variant) == FALSE

\* Whether the body has an output slot, and whether it is a ManuallyDrop.
HasOutSlot(variant)      == variant \in {PROTECTED, NO_PANIC, LIB}
OutIsManuallyDrop(variant) == variant \in {PROTECTED, NO_PANIC, LIB}

\* The arm of `match err` taken, as [kind, val, read, take]: what the call hands
\* to its caller, whether the output slot was moved out of, and whether the
\* pending-exception slot was taken.
MatchErr(fr) ==
    IF IsSuccess(fr.err)
    THEN CASE fr.variant = PROTECTED ->
                \* ManuallyDrop::into_inner(out), then Ok(out) or resume_unwind
                [kind |-> CASE fr.out.tag = "Ok"  -> "Ok"
                            [] fr.out.tag = "Err" -> "Panic"
                            [] OTHER              -> "Undefined",
                 val |-> fr.out.val, read |-> TRUE, take |-> TakesCurrent(fr.err)]
           [] fr.variant \in {NO_PANIC, LIB} ->
                \* Ok(ManuallyDrop::into_inner(out))
                [kind |-> IF fr.out.tag = "O" THEN "Ok" ELSE "Undefined",
                 val |-> fr.out.val, read |-> TRUE, take |-> TakesCurrent(fr.err)]
           [] fr.variant = SIZE_OPT ->
                \* ptr::read(&val as *const VALUE as *const O)
                [kind |-> IF fr.val.tag = "VALUE" THEN "Ok" ELSE "Undefined",
                 val |-> fr.val.val, read |-> FALSE, take |-> TakesCurrent(fr.err)]
           [] fr.variant \in VmApis ->
                \* Ok(AnyObject::from_raw(raw)), and Ok(()) in load
                [kind |-> "Ok",
                 val |-> IF fr.variant = LOAD THEN UNIT ELSE fr.val.val,
                 read |-> FALSE, take |-> TakesCurrent(fr.err)]
    ELSE [kind |-> "Err", val |-> TakeCurrentValue(errinfo),
          read |-> FALSE, take |-> TakesCurrent(fr.err)]

\* What the finished call leaves behind for observation.
Record(fr, m, slot) ==
    [variant |-> fr.variant, depth |-> Depth, err |-> fr.err,
     invoked |-> fr.invoked, writes |-> fr.writes,
     takes |-> fr.takes + (IF m.take THEN 1 ELSE 0),
     outRead |-> m.read,
     outDropped |-> HasOutSlot(fr.variant) /\ ~OutIsManuallyDrop(fr.variant) /\ ~m.read,
     crossed |-> fr.crossed, cb |-> fr.cb,
     result |-> [kind |-> m.kind, val |-> m.val],
     innerErr |-> fr.innerErr, prev |-> fr.prev,
     entryErrinfo |-> fr.entryErrinfo, raisedWith |-> fr.raisedWith,
     exitErrinfo |-> slot]

\* Mutant: a failed inner call re-raises into its caller.
Resume_reraise(parent, m) ==
    [parent EXCEPT !.innerErr = @ \/ m.kind = "Err",
                   !.unw = IF m.kind = "Panic" THEN m.val ELSE @,
                   !.pc  = IF m.kind = "Err" THEN "jump" ELSE @]

\* Mutant: a call that resumed a panic returns to its caller like any other.
Resume_no_unwind(parent, m) ==
    [parent EXCEPT !.innerErr = @ \/ m.kind = "Err"]

\* The caller's frame after the call returned m to it (or unwound into it).
Resume(parent, m) ==
    [parent EXCEPT !.innerErr = @ \/ m.kind = "Err",
                   !.unw = IF m.kind = "Panic" THEN m.val ELSE @]

\* `match err { ... }` to the end of the function: the call hands its result to
\* its caller and its frame is popped.
Finish ==
    /\ ~undefined
    /\ Depth > 0
    /\ Top.pc = "returned"
    /\ LET m == MatchErr(Top) IN
         IF m.kind = "Undefined"
         THEN /\ undefined' = TRUE
              /\ stack' = SetTop([Top EXCEPT !.pc = "undefined", !.outRead = m.read])
              /\ UNCHANGED <<errinfo, last>>
         ELSE /\ undefined' = FALSE
              /\ errinfo' = IF m.take THEN TakeCurrentSlot(errinfo) ELSE errinfo
              /\ last' = Record(Top, m, errinfo')
              /\ stack' = IF Depth = 1 THEN << >>
                          ELSE [SubSeq(stack, 1, Depth - 1) EXCEPT
                                   ![Depth - 1] = Resume(stack[Depth - 1], m)]
    /\ UNCHANGED ncalls
    /\ UNCHANGED otherVars

Next ==
    \/ \E api \in {PROTECTED, NO_PANIC}, matches \in BOOLEAN : Call(api, matches)
    \/ ProtectEnter
    \/ \E e \in Exceptions : ProtectAbort(e)
    \/ \E v \in Values : CallbackReturn(v)
    \/ \E e \in Exceptions : CallbackRaise(e)
    \/ \E p \in Payloads : CallbackPanic(p)
    \/ CallbackCatchUnwind
    \/ \E s \in NonzeroStatus : ProtectReturn(s)
    \/ Finish

Spec == Init /\ [][Next]_vars

\* One thread of execution that keeps running: rb_protect returns once the
\* wrapper returned or the jump arrived, and the function then runs to its end.
FairSpec ==
    /\ Spec
    /\ WF_vars(\E s \in NonzeroStatus : ProtectReturn(s))
    /\ WF_vars(Finish)

\* ------------------------------------------------- the crate root's protected
\* The same callers, which also call the protected of lib.rs.
LibNext ==
    \/ Next
    \/ Call(LIB, FALSE)

SpecLib == Init /\ [][LibNext]_vars

\* ------------------------------------------------ nested calls of protected
\* protected called by callbacks that do not catch a panic themselves
\* (tests::panic catches only outside the outermost call).
PanicNext ==
    \/ Call(PROTECTED, FALSE)
    \/ ProtectEnter
    \/ \E e \in Exceptions : ProtectAbort(e)
    \/ \E v \in Values : CallbackReturn(v)
    \/ \E e \in Exceptions : CallbackRaise(e)
    \/ \E p \in Payloads : CallbackPanic(p)
    \/ \E s \in NonzeroStatus : ProtectReturn(s)
    \/ Finish

\* resume_unwind(panic_info) in a call made by a callback: the unwind goes on
\* through that callback to the catch_unwind of its wrapper.
Unwinding ==
    /\ Depth > 0
    /\ Top.unw # NONE
    /\ \E p \in Payloads : CallbackPanic(p)

\* One thread of execution: rb_protect returns, the function runs to its end,
\* and a panic that was resumed keeps unwinding.
SpecPanic ==
    /\ Init /\ [][PanicNext]_vars
    /\ WF_vars(\E s \in NonzeroStatus : ProtectReturn(s))
    /\ WF_vars(Finish)
    /\ WF_vars(Unwinding)

\* ------------------------------------------------------- scripts run by the VM
\* eval, eval_wrapped, eval_protected, load up to the call of the primitive.
VmCall(api) ==
    /\ CanCall
    /\ stack' = Append(stack, [NewFrame(api) EXCEPT !.pc = "script"])
    /\ ncalls' = ncalls + 1
    /\ UNCHANGED <<errinfo, last, undefined>>
    /\ UNCHANGED otherVars

\* The script ends with value v, which the primitive returns.
ScriptReturn(v) ==
    /\ ~undefined
    /\ Depth > 0
    /\ Top.pc = "script"
    /\ stack' = SetTop([Top EXCEPT !.pc = "wrapper_done", !.val = Cell("VALUE", v),
                                   !.cb = [kind |-> "return", val |-> v]])
    /\ UNCHANGED <<errinfo, last, ncalls, undefined>>
    /\ UNCHANGED otherVars

\* The script raises e: the VM stores it in the pending-exception slot and jumps
\* to the primitive.
ScriptRaise(e) ==
    /\ ~undefined
    /\ Depth > 0
    /\ Top.pc = "script"
    /\ errinfo' = e
    /\ stack' = SetTop([Top EXCEPT !.pc = "jump", !.raisedWith = e,
                                   !.cb = [kind |-> "raise", val |-> e]])
    /\ UNCHANGED <<last, ncalls, undefined>>
    /\ UNCHANGED otherVars

\* Callers that run scripts, at the top level and inside callbacks of protected.
VmNext ==
    \/ \E api \in VmApis : VmCall(api)
    \/ \E v \in Values : ScriptReturn(v)
    \/ \E e \in Exceptions : ScriptRaise(e)
    \/ Call(PROTECTED, FALSE)
    \/ ProtectEnter
    \/ \E v \in Values : CallbackReturn(v)
    \/ \E e \in Exceptions : CallbackRaise(e)
    \/ \E s \in NonzeroStatus : ProtectReturn(s)
    \/ Finish

SpecVm == Init /\ [][VmNext]_vars

\* ------------------------------- the public operations on the pending exception
NoneOpt   == [kind |-> "None", val |-> NONE]
SomeOpt(e) == [kind |-> "Some", val |-> e]

\* AnyException::current: `match rb_errinfo() { NIL_VALUE => None, raw => Some(..) }`
Current(slot) == IF slot = NIL_VALUE THEN NoneOpt ELSE SomeOpt(slot)

\* Mutant: take_current returns the pending exception and leaves it pending.
TakeCurrent_no_clear(slot) == [result |-> Current(slot), slot |-> slot]

\* AnyException::take_current: `let current = AnyException::current()?;` returns
\* None at once; otherwise rb_set_errinfo(NIL_VALUE) and Some(current).
TakeCurrent(slot) ==
    IF Current(slot).kind = "None"
    THEN [result |-> NoneOpt, slot |-> slot]
    ELSE [result |-> Current(slot), slot |-> NIL_VALUE]

\* Mutant: code outside the crate runs at any point of a boundary call.
CanRunExtern_anytime == ~undefined

\* Code outside the crate runs where it can call the crate: at the top level, or
\* in the callback of the innermost boundary call.
CanRunExtern ==
    /\ ~undefined
    /\ (Depth > 0 => Top.pc = "callback" /\ Top.unw = NONE)

NoExt ==
    [op |-> NONE, before |-> NIL_VALUE, result |-> NoneOpt, after |-> NIL_VALUE,
     prevTook |-> FALSE]

\* What a public operation leaves behind for observation: the slot before and
\* after, the Option returned, and whether the public operation before it was
\* a take_current that returned an exception.
ExtRecord(op, result, after) ==
    [op |-> op, before |-> errinfo, result |-> result, after |-> after,
     prevTook |-> ext.op = "take_current" /\ ext.result.kind = "Some"]

ExternCurrent ==
    /\ CanRunExtern
    /\ ext' = ExtRecord("current", Current(errinfo), errinfo)
    /\ UNCHANGED <<stack, errinfo, last, ncalls, undefined, iter, gc, ns, num>>

ExternTakeCurrent ==
    /\ CanRunExtern
    /\ errinfo' = TakeCurrent(errinfo).slot
    /\ ext' = ExtRecord("take_current", TakeCurrent(errinfo).result, errinfo')
    /\ UNCHANGED <<stack, last, ncalls, undefined, iter, gc, ns, num>>

\* Native code is entered from the VM with or without an exception pending
\* (rb_errinfo is the VM's `$!`).
SlotInit ==
    /\ stack = << >>
    /\ errinfo \in Exceptions \cup {NIL_VALUE}
    /\ last = NoCall
    /\ ncalls = 0
    /\ undefined = FALSE
    /\ iter = Unused
    /\ gc = Unused
    /\ ns = Unused
    /\ num = Unused
    /\ ext = NoExt

\* Callers and callbacks that use the public operations between their boundary
\* calls and do not panic.
SlotNext ==
    \/ \E api \in {PROTECTED, NO_PANIC} : Call(api, FALSE)
    \/ ProtectEnter
    \/ \E e \in Exceptions : ProtectAbort(e)
    \/ \E v \in Values : CallbackReturn(v)
    \/ \E e \in Exceptions : CallbackRaise(e)
    \/ \E s \in NonzeroStatus : ProtectReturn(s)
    \/ Finish
    \/ ExternCurrent
    \/ ExternTakeCurrent

SpecSlot == SlotInit /\ [][SlotNext]_vars

\* ------------------------------------------------------- Array and its Iter
Objects == {"x", "y"}         \* objects an Array holds
GARBAGE == "garbage"          \* what a read beyond the buffer's length yields

Arrays == UNION {[1..n -> Objects] : n \in 0..MaxLen}

\* Mutant: the length is read once, when the iterator is made.
SliceLen_cached(it) == it.len0

\* Array::len, read by as_slice each time it is called: the length now.
SliceLen(it) == Len(it.arr)

\* Array::get(index): `self.as_slice().get(index)`, the bounds check of a slice
\* of SliceLen elements over the array's buffer.  `read` is the index read, -1
\* when none was.
Get(it, index) ==
    IF index < SliceLen(it)
    THEN [kind |-> "Some",
          val  |-> IF index < Len(it.arr) THEN it.arr[index + 1] ELSE GARBAGE,
          read |-> index]
    ELSE [kind |-> "None", val |-> NONE, read |-> -1]

\* `for _ in a { body }`: Array::into_iter makes Iter { array, current: 0 }.  The
\* body either does anything to the array between two steps ("free") or pops
\* exactly one element after each item ("pop_each", the type's doc test).
IterInit ==
    /\ BoundaryInit
    /\ gc = Unused /\ ns = Unused /\ ext = Unused /\ num = Unused
    /\ \E a \in Arrays, mode \in {"free", "pop_each"} :
          iter = [arr |-> a, len0 |-> Len(a), mode |-> mode, current |-> 0,
                  items |-> << >>, ended |-> FALSE, owed |-> FALSE,
                  overrun |-> FALSE]

\* Iter::next: `let obj = self.array.get(self.current)?; self.current += 1; Some(obj)`
IterNext ==
    /\ ~iter.ended /\ ~iter.owed
    /\ LET r == Get(iter, iter.current) IN
         iter' = IF r.kind = "None"
                 THEN [iter EXCEPT !.ended = TRUE]
                 ELSE [iter EXCEPT !.current = @ + 1,
                                   !.items = Append(@, r.val),
                                   !.owed = (iter.mode = "pop_each"),
                                   !.overrun = @ \/ r.read >= Len(iter.arr)]
    /\ UNCHANGED <<boundaryVars, gc, ns, ext, num>>

\* Array::pop (rb_ary_pop): removes the last element; nothing to remove from an
\* empty array.
ArrPop ==
    /\ ~iter.ended
    /\ iter.mode = "pop_each" => iter.owed
    /\ iter' = [iter EXCEPT
                  !.arr = IF Len(@) = 0 THEN @ ELSE SubSeq(@, 1, Len(@) - 1),
                  !.owed = FALSE]
    /\ UNCHANGED <<boundaryVars, gc, ns, ext, num>>

\* Array::push (rb_ary_push) in the loop body.
ArrPush(o) ==
    /\ ~iter.ended
    /\ iter.mode = "free"
    /\ Len(iter.arr) < MaxLen
    /\ iter' = [iter EXCEPT !.arr = Append(@, o)]
    /\ UNCHANGED <<boundaryVars, gc, ns, ext, num>>

IterNextStep ==
    \/ IterNext
    \/ ArrPop
    \/ \E o \in Objects : ArrPush(o)

SpecIter == IterInit /\ [][IterNextStep]_vars

\* ------------------------------------------ defining top-level classes
Names  == {"A", "B"}          \* constant names (SymbolId)

\* A constant's value: its built-in type and who made it.
Const(type, by) == [type |-> type, by |-> by]
ABSENT == Const("absent", NONE)     \* rb_const_defined(m, name) == 0
OBJECT == Const("class", "core")    \* Class::object(), the top-level namespace
VmConsts == {Const(t, "vm") : t \in {"class", "module", "other"}}

Ok(v)     == [kind |-> "Ok", val |-> v]
Err(k, v) == [kind |-> k, val |-> v]

\* Mutant: no constant is found, whatever the name.
DefMixinErrorGet_none(consts, name) == NoneOpt

\* DefMixinError::_get: `_get_const(m, name)?`, then the error by the built-in
\* type of the constant found.
DefMixinErrorGet(consts, name) ==
    IF consts[name] = ABSENT
    THEN NoneOpt
    ELSE SomeOpt(CASE consts[name].type = "module" -> Err("ExistingModule", consts[name])
                   [] consts[name].type = "class"  -> Err("ExistingClass", consts[name])
                   [] OTHER                        -> Err("ExistingConst", consts[name]))

\* rb_define_class_id_under(m, name, superclass): the class of that name, made
\* when there is none; over a constant that is no class the VM raises.
DefineClassIdUnder(consts, name) ==
    CASE consts[name] = ABSENT ->
            [result |-> Ok(Const("class", "def")),
             consts |-> [consts EXCEPT ![name] = Const("class", "def")]]
      [] consts[name] # ABSENT /\ consts[name].type = "class" ->
            [result |-> Ok(consts[name]), consts |-> consts]
      [] OTHER ->
            [result |-> Err("Raise", consts[name]), consts |-> consts]

\* Class::_def_under, as [result, consts]: the existing constant first, then the
\* frozen namespace, then the definition.
DefUnder(n, name) ==
    IF DefMixinErrorGet(n.consts, name).kind = "Some"
    THEN [result |-> DefMixinErrorGet(n.consts, name).val, consts |-> n.consts]
    ELSE IF n.frozen
    THEN [result |-> Err("FrozenClass", OBJECT), consts |-> n.consts]
    ELSE DefineClassIdUnder(n.consts, name)

\* DefMixinError::existing_class
ExistingClass(error) ==
    IF error.kind = "ExistingClass" THEN SomeOpt(error.val) ELSE NoneOpt

\* Class::get_or_def: `match Class::def(name)`
GetOrDefResult(r) ==
    IF r.kind = "Ok" THEN r
    ELSE IF ExistingClass(r).kind = "Some" THEN Ok(ExistingClass(r).val)
    ELSE r

NoOp == [op |-> NONE, name |-> NONE, result |-> NoResult]

\* Any top-level namespace: each name unused or naming a class, a module or
\* another constant; Object frozen or not.
ClassInit ==
    /\ BoundaryInit
    /\ iter = Unused /\ gc = Unused /\ ext = Unused /\ num = Unused
    /\ \E c \in [Names -> VmConsts \cup {ABSENT}], fz \in BOOLEAN :
          ns = [consts |-> c, frozen |-> fz, before |-> c, frozenBefore |-> fz,
                last |-> NoOp]

\* Class::def(name): Class::object().def_class(name)
ClassDef(name) ==
    /\ ns' = [ns EXCEPT !.consts = DefUnder(ns, name).consts,
                        !.before = ns.consts, !.frozenBefore = ns.frozen,
                        !.last = [op |-> "def", name |-> name,
                                  result |-> DefUnder(ns, name).result]]
    /\ UNCHANGED <<boundaryVars, iter, gc, ext, num>>

\* Class::get_or_def(name)
ClassGetOrDef(name) ==
    /\ ns' = [ns EXCEPT !.consts = DefUnder(ns, name).consts,
                        !.before = ns.consts, !.frozenBefore = ns.frozen,
                        !.last = [op |-> "get_or_def", name |-> name,
                                  result |-> GetOrDefResult(DefUnder(ns, name).result)]]
    /\ UNCHANGED <<boundaryVars, iter, gc, ext, num>>

\* Object::freeze on the namespace.
NsFreeze ==
    /\ ~ns.frozen
    /\ ns' = [ns EXCEPT !.frozen = TRUE]
    /\ UNCHANGED <<boundaryVars, iter, gc, ext, num>>

ClassNext ==
    \/ \E name \in Names : ClassDef(name)
    \/ \E name \in Names : ClassGetOrDef(name)
    \/ NsFreeze

SpecClass == ClassInit /\ [][ClassNext]_vars

\* ------------------------------------------------------------- gc::disabled
\* The collector is enabled or disabled when the first gc::disabled is called
\* (gc::disable may have been used before).
GcInit ==
    /\ BoundaryInit
    /\ iter = Unused /\ ns = Unused /\ ext = Unused /\ num = Unused
    /\ \E d \in BOOLEAN :
          gc = [disabled |-> d, frames |-> << >>, calls |-> 0,
                count |-> 0, ranInF |-> FALSE,
                last |-> [f |-> NONE, ret |-> NONE]]

GcDepth == Len(gc.frames)
GcTop   == gc.frames[GcDepth]

\* gc::disabled(f) is called, at the top level or by the f of the innermost
\* gc::disabled in progress.
GcDisabledCall ==
    /\ gc.calls < MaxCalls
    /\ GcDepth < MaxDepth
    /\ GcDepth > 0 => GcTop.pc = "f"
    /\ gc' = [gc EXCEPT !.frames = Append(@, [pc |-> "disable", output |-> NONE]),
                        !.calls = @ + 1]
    /\ UNCHANGED <<boundaryVars, iter, ns, ext, num>>

\* `disable();` (rb_gc_disable): the collector is switched off, f starts.
GcDisable ==
    /\ GcDepth > 0
    /\ GcTop.pc = "disable"
    /\ gc' = [gc EXCEPT !.disabled = TRUE, !.frames[GcDepth].pc = "f"]
    /\ UNCHANGED <<boundaryVars, iter, ns, ext, num>>

\* `let output = f();`: f returns v.
GcFReturn(v) ==
    /\ GcDepth > 0
    /\ GcTop.pc = "f"
    /\ gc' = [gc EXCEPT !.frames[GcDepth] = [pc |-> "enable", output |-> v],
                        !.last = [f |-> v, ret |-> NONE]]
    /\ UNCHANGED <<boundaryVars, iter, ns, ext, num>>

\* `enable(); output` (rb_gc_enable): the collector is switched on and the
\* output returned.
GcEnable ==
    /\ GcDepth > 0
    /\ GcTop.pc = "enable"
    /\ gc' = [gc EXCEPT !.disabled = FALSE,
                        !.frames = SubSeq(@, 1, GcDepth - 1),
                        !.last = [f |-> @.f, ret |-> GcTop.output]]
    /\ UNCHANGED <<boundaryVars, iter, ns, ext, num>>

\* The collector runs (an allocation asks for memory) while it is enabled;
\* gc::count() counts its runs.  `ranInF`: it ran while some f was executing.
GcRun ==
    /\ ~gc.disabled
    /\ gc.count < MaxCalls
    /\ gc' = [gc EXCEPT !.count = @ + 1,
                        !.ranInF = @ \/ \E i \in 1..GcDepth : gc.frames[i].pc = "f"]
    /\ UNCHANGED <<boundaryVars, iter, ns, ext, num>>

GcNext ==
    \/ GcRun
    \/ GcDisabledCall
    \/ GcDisable
    \/ \E v \in Values : GcFReturn(v)
    \/ GcEnable

SpecGc == GcInit /\ [][GcNext]_vars

\* ---------------------------------------------------------------- Integer
\* special_consts::FIXNUM_FLAG
FIXNUM_FLAG == 1

ValueMod == 2 ^ ValueBits

\* `x as VALUE` (usize) and `x as c_long`: the same bits, unsigned and signed.
AsValue(x) == x % ValueMod
AsLong(v)  == IF v % ValueMod >= ValueMod \div 2 THEN (v % ValueMod) - ValueMod ELSE v % ValueMod

\* One bit of &, | and ^.
BitOf(op, x, y) ==
    CASE op = "bitand" -> IF x = 1 /\ y = 1 THEN 1 ELSE 0
      [] op = "bitor"  -> IF x = 1 \/ y = 1 THEN 1 ELSE 0
      [] op = "bitxor" -> IF x # y THEN 1 ELSE 0

\* &, | and ^ on two words of n bits.
RECURSIVE WordOp(_, _, _, _)
WordOp(op, x, y, n) ==
    IF n = 0 THEN 0
    ELSE BitOf(op, x % 2, y % 2) + 2 * WordOp(op, x \div 2, y \div 2, n - 1)

\* `a.bitand(b)`, `a.bitor(b)`, `a.bitxor(b)` on c_long.
LongOp(op, a, b) == AsLong(WordOp(op, AsValue(a), AsValue(b), ValueBits))

\* util::fixnum_to_value: `((i as VALUE) << 1) | FIXNUM_FLAG`
fixnum_to_value(i) == WordOp("bitor", AsValue(AsValue(i) * 2), FIXNUM_FLAG, ValueBits)

\* util::value_to_fixnum: `((v & !(FIXNUM_FLAG as VALUE)) >> 1) as c_long`; VALUE
\* is unsigned, so `>>` shifts a zero into the top bit.
value_to_fixnum(v) ==
    AsLong(WordOp("bitand", v, AsValue(-1 - FIXNUM_FLAG), ValueBits) \div 2)

\* util::value_is_fixnum: `v & FIXNUM_FLAG != 0`
value_is_fixnum(v) == WordOp("bitand", v, FIXNUM_FLAG, ValueBits) # 0

\* The integers the VM keeps as fixnums: those whose doubled value fits VALUE.
FixnumRange == -(ValueMod \div 4) .. (ValueMod \div 4) - 1

\* The address of a heap object: aligned, so its low bits are clear.
HeapPtr == ValueMod \div 2

\* An Integer object: its VALUE, and the value of the bignum it points to.
Fixnum(raw) == [raw |-> raw, big |-> 0]
Bignum(n)   == [raw |-> HeapPtr, big |-> n]

\* rb_int2inum / rb_uint2inum and the VM's normalisation of results: a fixnum
\* when the value fits one, else a bignum.
IntegerOf(n) == IF n \in FixnumRange THEN Fixnum(fixnum_to_value(n)) ELSE Bignum(n)

\* The value the VM reads from an Integer object.
VmValue(int) ==
    IF value_is_fixnum(int.raw)
    THEN CHOOSE i \in FixnumRange : fixnum_to_value(i) = int.raw
    ELSE int.big

\* Option::<i64>::None and Option::<W>::None
NoValue == [kind |-> "None", val |-> 0]

\* Integer::fixnum_value
fixnum_value(int) ==
    IF value_is_fixnum(int.raw)
    THEN SomeOpt(value_to_fixnum(int.raw))
    ELSE NoValue

\* Mutant: the operation is applied to the tagged VALUEs as they are.
FixnumBitOp_tagged(op, a, b) == WordOp(op, a, b, ValueBits)

\* The fixnum fast path of impl_bit_ops: untag, operate, tag.
FixnumBitOp(op, a, b) ==
    fixnum_to_value(LongOp(op, value_to_fixnum(a), value_to_fixnum(b)))

\* &, | and ^ on integers of any size (two's complement, sign extended).
RECURSIVE IntOp(_, _, _)
IntOp(op, x, y) ==
    IF x \in {0, -1} /\ y \in {0, -1}
    THEN -BitOf(op, -x, -y)
    ELSE BitOf(op, x % 2, y % 2) + 2 * IntOp(op, x \div 2, y \div 2)

\* rb_big_and / rb_big_or / rb_big_xor: the VM's operation, normalised.
BigOp(op, a, b) == IntegerOf(IntOp(op, VmValue(a), VmValue(b)))

\* impl_bit_ops: `fn $f(self, rhs: Self) -> Self`
IntegerBitOp(op, self, rhs) ==
    IF value_is_fixnum(self.raw)
    THEN IF value_is_fixnum(rhs.raw)
         THEN Fixnum(FixnumBitOp(op, self.raw, rhs.raw))
         ELSE BigOp(op, rhs, self)
    ELSE BigOp(op, self, rhs)

\* The bits of a byte, scaled down with VALUE: usize spans three bytes.
ByteBits == ValueBits \div 3

\* pack::Word: a primitive integer type, by IS_SIGNED and mem::size_of.
Word(signed, size) == [signed |-> signed, size |-> size]
Words == {Word(signed, size) : signed \in BOOLEAN, size \in 1..MaxWordSize}
NoWord == Word(FALSE, 0)
WordBits(W) == ByteBits * W.size

\* W::min_value() ..= W::max_value()
WordRange(W) ==
    IF W.signed
    THEN -(2 ^ (WordBits(W) - 1)) .. 2 ^ (WordBits(W) - 1) - 1
    ELSE 0 .. 2 ^ WordBits(W) - 1

\* From<T> for Integer: `(int as usize).into()` / `(int as isize).into()`, that
\* is rb_uint2inum / rb_int2inum, for the types no wider than usize, and
\* Self::unpack for the wider ones.
IntegerFrom(T, v) ==
    IF WordBits(T) <= ValueBits
    THEN IF T.signed THEN IntegerOf(AsLong(v)) ELSE IntegerOf(AsValue(v))
    ELSE IntegerOf(v)

\* Integer::is_negative
is_negative(int) ==
    IF value_is_fixnum(int.raw)
    THEN AsLong(int.raw) < 0
    ELSE int.big < 0

Abs(n) == IF n < 0 THEN -n ELSE n

\* The number of bits of a magnitude.
RECURSIVE BitLen(_)
BitLen(m) == IF m = 0 THEN 0 ELSE 1 + BitLen(m \div 2)

\* rb_absint_size: the bytes of the absolute value, and the leading zero bits
\* of its most significant byte.
rb_absint_size(int) ==
    LET bits == BitLen(Abs(VmValue(int)))
        size == (bits + ByteBits - 1) \div ByteBits
    IN  [size |-> size, nlz_bits |-> size * ByteBits - bits]

\* Mutant: no absolute value is taken for a power of two.
rb_absint_singlebit_p_never(int) == FALSE

\* rb_absint_singlebit_p: the absolute value is a power of two.
rb_absint_singlebit_p(int) ==
    LET m == Abs(VmValue(int))
    IN  m > 0 /\ m = 2 ^ (BitLen(m) - 1)

\* Integer::_can_represent_raw(signed, word_size).0
_can_represent_raw(int, signed, word_size) ==
    LET abs  == rb_absint_size(int)
        size == IF abs.nlz_bits = 0 /\ ~(is_negative(int) /\ rb_absint_singlebit_p(int))
                THEN abs.size + 1
                ELSE abs.size
    IN  IF signed THEN size <= word_size
        ELSE IF is_negative(int) THEN FALSE
        ELSE abs.size <= word_size

\* Integer::can_represent::<W>
can_represent(int, W) == _can_represent_raw(int, W.signed, W.size)

\* rb_integer_pack into one word of W (two's complement when W is signed): the
\* low bits of the value, read as a W.
rb_integer_pack(int, W) ==
    LET low == VmValue(int) % (2 ^ WordBits(W))
    IN  IF W.signed /\ low >= 2 ^ (WordBits(W) - 1) THEN low - 2 ^ WordBits(W) ELSE low

\* Integer::to_value::<W>
to_value(int, W) ==
    IF ~can_represent(int, W) THEN NoValue
    ELSE SomeOpt(rb_integer_pack(int, W))

\* The values given to the bit operations and to fixnum_value: every isize.
LongRange == -(ValueMod \div 2) .. (ValueMod \div 2) - 1

\* One operation is applied to one Integer, freshly converted from its input.
NoNum == [op |-> NONE, from |-> NoWord, t |-> NoWord, a |-> 0, b |-> 0, int |-> Fixnum(0),
          can |-> FALSE, result |-> NoValue]

NumInit ==
    /\ BoundaryInit
    /\ iter = Unused /\ gc = Unused /\ ns = Unused /\ ext = Unused
    /\ num = NoNum

\* Integer::from(a).fixnum_value()
FixnumValueOf(a) ==
    /\ num.op = NONE
    /\ num' = [NoNum EXCEPT !.op = "fixnum_value", !.a = a, !.int = IntegerOf(a),
                            !.result = fixnum_value(IntegerOf(a))]
    /\ UNCHANGED <<boundaryVars, iter, gc, ns, ext>>

\* Integer::from(a) & Integer::from(b), and | and ^
BitOpOf(op, a, b) ==
    /\ num.op = NONE
    /\ num' = [NoNum EXCEPT !.op = op, !.a = a, !.b = b,
                            !.int = IntegerBitOp(op, IntegerOf(a), IntegerOf(b))]
    /\ UNCHANGED <<boundaryVars, iter, gc, ns, ext>>

\* Integer::from(v: T).can_represent::<W>() and .to_value::<W>()
ToValueOf(T, W, v) ==
    /\ num.op = NONE
    /\ LET int == IntegerFrom(T, v)
       IN  num' = [NoNum EXCEPT !.op = "to_value", !.from = T, !.t = W, !.a = v,
                                !.int = int, !.can = can_represent(int, W),
                                !.result = to_value(int, W)]
    /\ UNCHANGED <<boundaryVars, iter, gc, ns, ext>>

NumNext ==
    /\ num.op = NONE
    /\ \/ \E a \in LongRange : FixnumValueOf(a)
       \/ \E op \in {"bitand", "bitor", "bitxor"}, a, b \in LongRange : BitOpOf(op, a, b)
       \/ \E T, W \in Words : \E v \in WordRange(T) : ToValueOf(T, W, v)

SpecNum == NumInit /\ [][NumNext]_vars

\* ------------------------------------------------------------------ claims

\* C1: in protected and protected_no_panic the output slot is moved out of
\* exactly when the status rb_protect stored is zero; with a nonzero status the
\* slot is neither read nor dropped.
C1_OutputReadIffStatusZero ==
    /\ \A i \in 1..Depth : stack[i].outRead => stack[i].err = 0
    /\ last.variant \in {PROTECTED, NO_PANIC} =>
          /\ last.outRead <=> last.err = 0
          /\ last.err # 0 => ~last.outRead /\ ~last.outDropped

C1_Witness ==
    /\ last.variant = NO_PANIC
    /\ last.cb.kind = "raise"
    /\ last.err # 0
    /\ ~last.outRead

\* C2: a callback of protected that returns v (no raise, no panic) makes
\* protected return Ok(v), v being the value the callback produced.
C2_ReturnIsOk ==
    (last.variant = PROTECTED /\ last.cb.kind = "return") =>
        last.result = [kind |-> "Ok", val |-> last.cb.val]

C2_Witness ==
    /\ last.variant = PROTECTED
    /\ last.cb = [kind |-> "return", val |-> "b"]
    /\ last.result = [kind |-> "Ok", val |-> "b"]

\* C3: a callback of protected that raises e makes protected return Err(e), e
\* being the object pending at the jump, and the pending-exception slot is nil
\* when protected returns.
C3_RaiseIsErr ==
    (last.variant = PROTECTED /\ last.cb.kind = "raise") =>
        /\ last.result = [kind |-> "Err", val |-> last.cb.val]
        /\ last.result.val = last.raisedWith
        /\ last.exitErrinfo = NIL_VALUE

C3_Witness ==
    /\ last.variant = PROTECTED
    /\ last.innerErr
    /\ last.cb = [kind |-> "raise", val |-> "e2"]
    /\ last.result = [kind |-> "Err", val |-> "e2"]

\* C4: in every boundary call the callback is invoked exactly once when the
\* wrapper is entered (the holder is emptied then) and not at all when the VM
\* leaves rb_protect before entering the wrapper; it is never invoked again.
C4_CallbackInvokedOnce ==
    /\ \A i \in 1..Depth :
          /\ stack[i].invoked <= 1
          /\ stack[i].invoked = 1 <=> ~stack[i].f
          /\ stack[i].pc = "protect" => stack[i].invoked = 0
          /\ stack[i].pc \in {"callback", "wrapper_done"} => stack[i].invoked = 1
          /\ stack[i].cb.kind # NONE => stack[i].invoked = 1
    /\ last.variant # NONE =>
          last.invoked = (IF last.cb.kind = NONE THEN 0 ELSE 1)

C4_Witness ==
    /\ last.variant # NONE
    /\ last.cb.kind = NONE
    /\ last.invoked = 0
    /\ last.result.kind = "Err"

\* C5: the pending-exception slot is taken (read and cleared) exactly once by
\* each boundary call that returns Err and never by one that returns Ok or
\* resumes a panic, nested calls included; no call takes it before it finishes.
C5_TakeOncePerFailedCall ==
    /\ \A i \in 1..Depth : stack[i].takes = 0
    /\ last.variant # NONE =>
          /\ last.takes = (IF last.result.kind = "Err" THEN 1 ELSE 0)
          /\ last.result.kind = "Err" => last.exitErrinfo = NIL_VALUE

C5_Witness ==
    /\ last.depth = 2
    /\ last.result.kind = "Err"
    /\ last.takes = 1
    /\ Depth = 1 /\ Top.takes = 0

\* C6: a protected call made right after a call that returned Err starts with
\* an empty pending-exception slot, returns Ok when its callback returns, and
\* an Err it returns carries its own exception, not the earlier one.
C6_NoLeakIntoNextCall ==
    /\ \A i \in 1..Depth :
          stack[i].prev.kind = "Err" => stack[i].entryErrinfo = NIL_VALUE
    /\ (last.variant = PROTECTED /\ last.prev.kind = "Err") =>
          /\ last.entryErrinfo = NIL_VALUE
          /\ last.cb.kind = "return" => last.result = [kind |-> "Ok", val |-> last.cb.val]
          /\ last.result.kind = "Err" => last.result.val = last.raisedWith

C6_Witness ==
    /\ last.variant = PROTECTED
    /\ last.prev = [kind |-> "Err", val |-> "e1"]
    /\ last.cb.kind = "return"
    /\ last.result.kind = "Ok"

\* C7: when a boundary call made inside a callback returns Err, the outer
\* callback goes on with its own context and output slot untouched, and an
\* outer protected whose callback then returns v returns Ok(v).
C7_InnerRaiseDoesNotLeak ==
    /\ \A i \in 1..Depth :
          (stack[i].innerErr /\ stack[i].cb.kind = NONE) =>
              /\ stack[i].pc = "callback"
              /\ stack[i].out = Uninit
              /\ stack[i].err = InitErr(stack[i].variant)
    /\ (last.variant = PROTECTED /\ last.innerErr /\ last.cb.kind = "return") =>
          last.result = [kind |-> "Ok", val |-> last.cb.val]

C7_Witness ==
    /\ last.variant = PROTECTED
    /\ last.depth = 1
    /\ last.innerErr
    /\ last.result.kind = "Ok"

\* C8: a callback of protected that panics with payload p makes the caller of
\* protected see a panic with payload p; protected does not return Err, and the
\* pending-exception slot is not taken and is empty.
C8_PanicReachesCaller ==
    (last.variant = PROTECTED /\ last.cb.kind = "panic") =>
        /\ last.result = [kind |-> "Panic", val |-> last.cb.val]
        /\ last.takes = 0
        /\ last.exitErrinfo = NIL_VALUE

C8_Witness ==
    /\ last.variant = PROTECTED
    /\ last.depth = 1
    /\ last.cb = [kind |-> "panic", val |-> "p2"]
    /\ last.result = [kind |-> "Panic", val |-> "p2"]

\* C9: a panic in the callback of protected is caught in the wrapper and kept
\* in the output slot as Err(p) while rb_protect is on the stack; it is resumed
\* only once rb_protect has returned status 0, and never unwinds through
\* rb_protect's frame.
C9_PanicHeldInertAcrossProtect ==
    /\ \A i \in 1..Depth : stack[i].variant = PROTECTED =>
          /\ ~stack[i].crossed
          /\ stack[i].cb.kind = "panic" =>
                /\ stack[i].out = Cell("Err", stack[i].cb.val)
                /\ stack[i].unw = NONE
                /\ stack[i].pc \in {"wrapper_done", "returned"}
    /\ (last.variant = PROTECTED /\ last.result.kind = "Panic") =>
          /\ ~last.crossed
          /\ last.err = 0
          /\ last.cb.kind = "panic"

C9_Witness ==
    /\ Depth = 2
    /\ Top.variant = PROTECTED
    /\ Top.pc = "wrapper_done"
    /\ Top.out = Cell("Err", "p1")

\* C10: starting from an empty pending-exception slot, the slot is empty every
\* time a boundary call hands control back to its caller; it is non-empty only
\* inside the failing call, between the jump and the take.
C10_NoStaleException ==
    /\ last.exitErrinfo = NIL_VALUE
    /\ \A i \in 1..Depth : stack[i].entryErrinfo = NIL_VALUE
    /\ errinfo # NIL_VALUE =>
          /\ Depth > 0
          /\ Top.pc \in {"jump", "returned"}
          /\ Top.raisedWith = errinfo

C10_Witness ==
    /\ last.variant = NO_PANIC
    /\ last.result.kind = "Err"
    /\ last.innerErr
    /\ last.prev.kind = "Panic"
    /\ errinfo = NIL_VALUE

\* C11 as stated: a protected call ends in Completed(value) or Raised(exception)
\* and its caller observes no other outcome.
C11_TwoOutcomesOnly ==
    last.variant = PROTECTED => last.result.kind \in {"Ok", "Err"}

\* C11, amended: a protected call ends in exactly one of three outcomes, decided
\* by the one call of rb_protect: Ok(v) when the callback returned v, Err(e) when
\* the status is nonzero, and the callback's panic resumed in the caller when the
\* callback panicked.
C11_ThreeOutcomes ==
    last.variant = PROTECTED =>
        /\ last.result.kind \in {"Ok", "Err", "Panic"}
        /\ last.result.kind = "Ok" <=> last.cb.kind = "return"
        /\ last.result.kind = "Panic" <=> last.cb.kind = "panic"
        /\ last.result.kind = "Err" <=> last.err # 0
        /\ last.result.kind = "Err" <=> last.cb.kind \in {"raise", NONE}

C11_Witness ==
    /\ last.variant = PROTECTED
    /\ last.depth = 2
    /\ last.result = [kind |-> "Panic", val |-> "p1"]

\* Every enclosing call is still inside its callback, with no status stored and
\* no result, while an inner call is in progress; once the innermost callback
\* has returned or raised, the only step is the one that takes its call on.
StackInvariant ==
    /\ \A i \in 1..(Depth - 1) :
          /\ stack[i].pc = "callback"
          /\ stack[i].cb.kind = NONE
          /\ stack[i].err = InitErr(stack[i].variant)
    /\ (~undefined /\ Depth > 0 /\ Top.pc \in {"wrapper_done", "jump"}) =>
          /\ ENABLED (\E s \in NonzeroStatus : ProtectReturn(s))
          /\ ~CanCall
    /\ (~undefined /\ Depth > 0 /\ Top.pc = "returned") =>
          /\ ENABLED Finish
          /\ ~CanCall

\* The callback of the call at depth d has returned or raised / that call has
\* handed its result to its caller.
CallbackEnded(d) == Depth = d /\ Top.pc \in {"wrapper_done", "jump"}
HandedBack(d)    == Depth = d - 1 /\ last.depth = d

\* C12: nested boundary calls form a stack and never interleave: the innermost
\* call finishes before any enclosing call has a status or a result, no call
\* starts in between, and every call whose callback returned or raised goes on
\* to hand its result to its caller (nothing cancels it).
C12_StackDiscipline ==
    /\ []StackInvariant
    /\ \A d \in 1..MaxDepth : CallbackEnded(d) ~> HandedBack(d)

C12_Witness ==
    /\ Depth = 2
    /\ stack[1].pc = "callback"
    /\ Top.pc = "returned"
    /\ Top.err # 0

\* C14: for a callback that does not panic, protected_no_panic (either of its
\* bodies) and protected return the same result, Ok(v) for a callback that
\* returned v and Err(e) for the exception e raised, and both leave the
\* pending-exception slot empty.
C14_NoPanicSameAsProtected ==
    (last.variant \in {PROTECTED, NO_PANIC, SIZE_OPT} /\ last.cb.kind # "panic") =>
        /\ last.cb.kind = "return" => last.result = [kind |-> "Ok", val |-> last.cb.val]
        /\ last.cb.kind # "return" => last.result = [kind |-> "Err", val |-> last.raisedWith]
        /\ last.exitErrinfo = NIL_VALUE

C14_Witness ==
    /\ last.variant = SIZE_OPT
    /\ last.cb = [kind |-> "return", val |-> "a"]
    /\ last.result = [kind |-> "Ok", val |-> "a"]

\* C13 as stated: no value of type O is dropped on the failure path, and the
\* output slot is written at most once, only by a callback that returned.
C13_WrittenOnlyOnReturn ==
    /\ \A i \in 1..Depth :
          /\ stack[i].writes <= 1
          /\ stack[i].writes = 1 => stack[i].cb.kind = "return"
    /\ last.variant # NONE =>
          /\ last.writes <= 1
          /\ last.writes = 1 => last.cb.kind = "return"
          /\ last.cb.kind # "return" => ~last.outDropped

\* C13, amended: when the callback raised or panicked no value of type O
\* exists: none is stored, moved out or dropped.  The output slot is written at
\* most once, by the wrapper: with the callback's return value, or, in the
\* protected of protected.rs (whose slot is a Result), with the payload of the
\* callback's panic; after a raise or a jump it stays unwritten.
C13_NoOutputOnFailure ==
    /\ \A i \in 1..Depth :
          LET fr == stack[i] IN
          /\ fr.writes <= 1
          /\ fr.writes = 1 <=> fr.out # Uninit
          /\ fr.out.tag \in {"O", "Ok"} => fr.cb = [kind |-> "return", val |-> fr.out.val]
          /\ fr.writes = 1 =>
                \/ fr.cb.kind = "return"
                \/ /\ fr.variant = PROTECTED
                   /\ fr.cb.kind = "panic"
                   /\ fr.out = Cell("Err", fr.cb.val)
          /\ fr.pc = "jump" => fr.writes = 0
    /\ (last.variant # NONE /\ last.cb.kind # "return") =>
          /\ ~last.outDropped
          /\ last.result.kind # "Ok"
          /\ last.writes = (IF last.variant = PROTECTED /\ last.cb.kind = "panic" THEN 1 ELSE 0)
          /\ last.outRead <=> last.writes = 1

C13_Witness ==
    /\ last.variant = LIB
    /\ last.cb.kind = "raise"
    /\ last.writes = 0
    /\ Depth = 1
    /\ Top.variant = PROTECTED
    /\ Top.cb.kind = "panic"
    /\ Top.writes = 1

C17_TakeCurrentRemoves ==
    /\ ext.op = "take_current" =>
          /\ ext.before \in Exceptions =>
                ext.result = [kind |-> "Some", val |-> ext.before] /\ ext.after = NIL_VALUE
          /\ ext.before = NIL_VALUE =>
                ext.result = [kind |-> "None", val |-> NONE] /\ ext.after = ext.before
    /\ ext.op = "current" =>
          /\ ext.after = ext.before
          /\ ext.before \in Exceptions => ext.result = [kind |-> "Some", val |-> ext.before]
          /\ ext.before = NIL_VALUE => ext.result = [kind |-> "None", val |-> NONE]
    /\ (ext.op # NONE /\ ext.prevTook) => ext.result.kind = "None"

C17_Witness ==
    /\ ncalls = 0
    /\ ext.op = "current"
    /\ ext.prevTook
    /\ ext.result.kind = "None"

C18_IterNeverOverruns ==
    /\ ~iter.overrun
    /\ \A i \in 1..Len(iter.items) : iter.items[i] \in Objects
    /\ Len(iter.items) = iter.current
    /\ iter.owed => iter.current <= Len(iter.arr)
    /\ iter.ended => iter.current >= Len(iter.arr)
    /\ (iter.ended /\ iter.mode = "pop_each") =>
          /\ Len(iter.items) = (iter.len0 + 1) \div 2
          /\ iter.len0 = 3 => Len(iter.items) = 2

C18_Witness ==
    /\ iter.mode = "pop_each"
    /\ iter.len0 = 3
    /\ iter.ended
    /\ Len(iter.items) = 2
    /\ Len(iter.arr) = 1

C20_DisabledDuringF ==
    /\ \A i \in 1..GcDepth : gc.frames[i].pc = "f" => gc.disabled
    /\ ~gc.ranInF
    /\ gc.last.ret # NONE => gc.last.ret = gc.last.f

\* C21: for every word type T and every value v of T, T::MIN and T::MAX
\* included, Integer::from(v).to_value::<T>() is Some(v); for every word type W,
\* can_represent::<W>() is true exactly when the value lies in the range of W,
\* and to_value::<W>() is Some of the value then and None otherwise.
C21_ToValueRoundTrips ==
    num.op = "to_value" =>
        /\ num.can = (num.a \in WordRange(num.t))
        /\ num.result = (IF num.a \in WordRange(num.t) THEN SomeOpt(num.a) ELSE NoValue)
        /\ num.from = num.t => num.result = SomeOpt(num.a)

\* The least value of the one-byte signed word, converted back to that word.
C21_Witness ==
    /\ num.op = "to_value"
    /\ num.from = Word(TRUE, 1) /\ num.t = Word(TRUE, 1)
    /\ num.a = -(2 ^ (ByteBits - 1))
    /\ num.can /\ num.result = SomeOpt(num.a)

\* C22: for all Integers a and b, a & b, a | b and a ^ b are the Integer of the
\* native operation on the values of a and b, on the fixnum fast path as on
\* the others, and for negative operands.
C22_BitOpsAreNative ==
    num.op \in {"bitand", "bitor", "bitxor"} =>
        num.int = IntegerOf(LongOp(num.op, num.a, num.b))

C22_Witness ==
    /\ num.op = "bitxor"
    /\ num.a = -3 /\ num.b = 5
    /\ num.int = Fixnum(fixnum_to_value(-8))

\* C23: Integer::fixnum_value returns the value of the fixnum stored in self:
\* Some(i) for an Integer holding i in the fixnum range, negative i included,
\* and None for a bignum.
C23_FixnumValueIsValue ==
    num.op = "fixnum_value" =>
        num.result = (IF num.a \in FixnumRange THEN SomeOpt(num.a) ELSE NoValue)

\* C24: the wrapper never finds the holder of the callback empty: every step
\* that leaves rb_protect for the wrapper, in a nested call or after a call that
\* a raise aborted, finds Some(f) in the context and empties it, and is the
\* first entry for that context; no context is entered again afterwards.
C24_HolderFullAtEntry ==
    [][\A i \in 1..Depth :
          /\ (i <= Len(stack') /\ stack[i].pc = "protect"
                /\ stack'[i].pc \notin {"protect", "jump"}) =>
                /\ stack[i].f /\ stack[i].invoked = 0
                /\ ~stack'[i].f /\ stack'[i].invoked = 1
                /\ stack'[i].pc = "callback"
          /\ (i <= Len(stack') /\ stack[i].pc # "protect") =>
                stack'[i].invoked = stack[i].invoked]_vars

C24_Witness ==
    /\ Depth = 2
    /\ Top.pc = "callback" /\ Top.invoked = 1 /\ ~Top.f
    /\ last.depth = 2 /\ last.invoked = 0 /\ last.result.kind = "Err"

\* C25 as stated: in every variant `err` is nonzero while rb_protect has not
\* returned yet.
C25_StatusNonzeroBeforeCall ==
    \A i \in 1..Depth :
        stack[i].pc \in {"protect", "callback", "wrapper_done", "jump"} => stack[i].err # 0

\* C25: protected alone starts `err` at a nonzero value (1); protected_no_panic
\* and its size-optimised body start it at 0.  In all of them rb_protect stores
\* the status before it returns, zero exactly when the wrapper returned, so
\* the status is zero after the call only if rb_protect stored that zero, the
\* output is read only then, and it is initialized when it is read.
C25_ZeroOnlyFromPrimitive ==
    /\ \A i \in 1..Depth :
          /\ stack[i].pc \in {"protect", "callback", "wrapper_done", "jump"} =>
                stack[i].err = (IF stack[i].variant = PROTECTED THEN 1 ELSE 0)
          /\ stack[i].pc = "returned" =>
                /\ stack[i].err = 0 <=> stack[i].cb.kind \in {"return", "panic"}
                /\ (stack[i].err = 0 /\ HasOutSlot(stack[i].variant)) =>
                      stack[i].out # Uninit /\ stack[i].writes = 1
                /\ stack[i].err # 0 => stack[i].writes = 0
          /\ stack[i].pc = "undefined" => stack[i].crossed /\ ~stack[i].outRead
    /\ last.variant # NONE =>
          /\ last.outRead => last.err = 0 /\ last.writes = 1
          /\ last.err # 0 => ~last.outRead /\ last.result.kind = "Err"

C25_Witness ==
    /\ Depth > 0
    /\ Top.variant = NO_PANIC
    /\ Top.pc = "returned"
    /\ Top.cb.kind = NONE
    /\ Top.err # 0 /\ Top.out = Uninit

\* C26: the protected of lib.rs contains a panic as the one of protected.rs
\* does: a panic in its callback never unwinds through rb_protect's frame; it
\* is held while rb_protect is on the stack and reaches the caller, with its
\* payload, only after rb_protect has returned.
C26_LibContainsPanic ==
    /\ \A i \in 1..Depth : stack[i].variant = LIB =>
          /\ ~stack[i].crossed
          /\ stack[i].cb.kind = "panic" =>
                stack[i].unw = NONE /\ stack[i].pc \in {"wrapper_done", "returned"}
    /\ (last.variant = LIB /\ last.cb.kind = "panic") =>
          /\ ~last.crossed
          /\ last.result = [kind |-> "Panic", val |-> last.cb.val]

\* The frame the general body of protected_no_panic would be in after rb_protect
\* returned, had it run the callback of the size-optimised frame fr.
GeneralPathOf(fr) ==
    LET g == [fr EXCEPT !.variant = NO_PANIC, !.val = Uninit, !.out = Uninit, !.writes = 0]
    IN  IF fr.cb.kind = "return"
        THEN [WriteOutput(g, fr.cb.val) EXCEPT !.err = ProtectStatus([g EXCEPT !.pc = "wrapper_done"], fr.err)]
        ELSE [g EXCEPT !.val = Cell("VALUE", NIL_VALUE)]

\* C27: for a callback that does not panic, the size-optimised body of
\* protected_no_panic returns what the general body returns for the same
\* callback, Ok(v) or Err(e); after a raise what rb_protect returned is not
\* looked at: the result is the same whatever it is, and is never Ok.
C27_SizeOptSameAsGeneral ==
    /\ \A i \in 1..Depth :
          (stack[i].variant = SIZE_OPT /\ stack[i].pc = "returned") =>
              LET fr == stack[i]
                  m  == MatchErr(fr)
                  g  == MatchErr(GeneralPathOf(fr))
              IN  /\ fr.cb.kind # "panic"
                  /\ m.kind = g.kind /\ m.val = g.val /\ m.take = g.take
                  /\ m.kind \in {"Ok", "Err"}
                  /\ m.kind = "Ok" <=> fr.cb.kind = "return"
                  /\ fr.cb.kind # "return" =>
                        \A v \in Values \cup {NIL_VALUE} :
                            MatchErr([fr EXCEPT !.val = Cell("VALUE", v)]) = m
    /\ (last.variant = SIZE_OPT /\ last.cb.kind = "return") =>
          last.result = [kind |-> "Ok", val |-> last.cb.val]

C27_Witness ==
    /\ Depth = 2
    /\ Top.variant = SIZE_OPT
    /\ Top.pc = "returned"
    /\ Top.cb.kind = "raise"
    /\ last.variant = SIZE_OPT
    /\ last.result.kind = "Ok"

\* While a panic travels outwards: every level it has reached holds it as
\* Err(p) in its output slot until its rb_protect has returned 0, hands it to
\* its caller as a panic (never Ok or Err) without taking the slot, and the
\* pending-exception slot is empty.
PanicInFlight ==
    /\ \A i \in 1..Depth :
          /\ stack[i].unw # NONE =>
                /\ i = Depth /\ stack[i].pc = "callback"
                /\ last.depth = i + 1
                /\ last.result = [kind |-> "Panic", val |-> stack[i].unw]
                /\ errinfo = NIL_VALUE
          /\ stack[i].cb.kind = "panic" =>
                /\ i = Depth /\ stack[i].pc \in {"wrapper_done", "returned"}
                /\ stack[i].out = Cell("Err", stack[i].cb.val)
                /\ stack[i].pc = "returned" => stack[i].err = 0
                /\ ~stack[i].crossed
                /\ errinfo = NIL_VALUE
    /\ last.cb.kind = "panic" =>
          /\ last.result = [kind |-> "Panic", val |-> last.cb.val]
          /\ last.takes = 0
          /\ last.exitErrinfo = NIL_VALUE

\* The innermost of d nested calls of protected has caught the panic p of its
\* callback / the caller of the outermost call has received p.
PanicCaughtAt(d, p) ==
    /\ Depth = d
    /\ Top.pc = "wrapper_done"
    /\ Top.cb = [kind |-> "panic", val |-> p]
PanicReachedCaller(p) ==
    /\ Depth = 0
    /\ last.depth = 1
    /\ last.result = [kind |-> "Panic", val |-> p]

\* C28: a panic in the callback of the innermost of k nested calls of protected
\* goes out through every enclosing call, caught by each wrapper and resumed
\* after each rb_protect returned, and reaches the caller of the outermost call
\* with its payload; no level returns Ok or Err for it and the
\* pending-exception slot stays empty.
C28_PanicPropagatesOut ==
    /\ []PanicInFlight
    /\ \A d \in 1..MaxDepth, p \in Payloads : PanicCaughtAt(d, p) ~> PanicReachedCaller(p)

C28_Witness ==
    /\ Depth = 1
    /\ Top.pc = "callback"
    /\ Top.unw = "p1"
    /\ last.depth = 2
    /\ last.result = [kind |-> "Panic", val |-> "p1"]
====
